---- MODULE Spec2Model ----
(***************************************************************************)
(* RubiksCubeStopWatch (src/main.py): a Tk window whose key handler starts,*)
(* stops and resets a stopwatch, whose after() callback refreshes the      *)
(* label while the stopwatch runs, and whose button writes the recorded    *)
(* time, tagged with the selected cube, to InfluxDB.                       *)
(*                                                                         *)
(* Time: time.perf_counter() is read from `clock`, a count of 10^-5 s      *)
(* units that never decreases.  A float is modelled by that count, and its *)
(* str() by the shortest decimal of count / 10^5, as Python prints it.     *)
(* An exception raised inside a Tk callback ends that callback where it is *)
(* raised; Tk reports it and the event loop goes on.                       *)
(***************************************************************************)
EXTENDS Integers, Sequences, FiniteSets, TLC

VARIABLES
    _start_time,   \* self._start_time: None or the clock at start()
    _final_time,   \* self._final_time: None or the elapsed count at stop()
    label,         \* text of self.label
    btn_visible,   \* self.influx_btn is packed/placed in the window
    btn_text,      \* caption of self.influx_btn
    cube_choice,   \* self.cube_choice (the dropdown's StringVar)
    _after_id,     \* self._after_id: None or the identifier after() returned
    pending,       \* identifiers of the after() callbacks Tk still has to run
    after_count,   \* how many identifiers after() has handed out
    clock,         \* what time.perf_counter() returns now
    advances,      \* how many times the clock has moved
    point,         \* the last Point handed to write(), or NoPoint
    write_ok,      \* whether that write returned (TRUE) or raised InfluxDBError
    n_writes,      \* how many times write() has been called
    event,         \* the event the main loop dispatched last
    session,       \* the state of the spec's four-state machine, kept alongside
    live,          \* the elapsed time display_time showed last, or None
    config_json,   \* config.json: whether it exists, and the keys it holds
    phase,         \* "launch", then "mainloop", or "exited" on an exception
    fmt_arg,       \* format_seconds called on its own: its argument
    fmt_ret        \* format_seconds called on its own: what it returned

vars == <<_start_time, _final_time, label, btn_visible, btn_text, cube_choice,
          _after_id, pending, after_count, clock, advances, point, write_ok,
          n_writes, event, session, live, config_json, phase, fmt_arg,
          fmt_ret>>

\* What no handler of the window writes.
fixedVars == <<config_json, phase, fmt_arg, fmt_ret>>

\* The program's own variables: everything but the clock, the remote side and
\* the bookkeeping of the model.
uiVars == <<_start_time, _final_time, label, btn_visible, btn_text,
            _after_id, pending>>

----------------------------------------------------------------------------
\* Bounds of the model.
MaxAdvances == 2
MaxAfter == 3
MaxWrites == 2

\* Python's None, for the values that are otherwise counts.
None == -1

\* Units of the clock per second.
UnitsPerSecond == 10 ^ 5

\* The steps a clock reading can lie after the one before: 5*10^-5 s, 20 ms
\* (one refresh period), 1 s.
ClockSteps == {5, 2000, UnitsPerSecond}

\* The key symbols a <Key> event can carry: the two bound ones and another.
Keysyms == {"space", "a", "Return"}

\* cube_options
CubeOptions == {"speed", "classic"}

DefaultCaption == "Send result to InfluxDb"
SentCaption == "Data sent to InfluxDb!"
InitialLabel == "Press space to start the stopwatch"
StartingLabel == "Starting...."
ResetLabel == "Hit space to start the stopwatch!"
\* str(ex) of the InfluxDBError the write raised.
ErrorText == "(401) Reason: Unauthorized"

NoPoint == [cube |-> "", recorded_time |-> None]

\* The keys transmit_to_influxdb reads from self.config.
RequiredKeys == {"INFLUX_URL", "INFLUX_TOKEN", "INFLUX_ORG", "INFLUX_BUCKET"}

\* The config.json files considered: none, a complete one, one without its
\* bucket, one without its URL.
ConfigFiles ==
    {[exists |-> FALSE, keys |-> {}]} \cup
    {[exists |-> TRUE, keys |-> RequiredKeys \ m] :
        m \in {{}, {"INFLUX_BUCKET"}, {"INFLUX_URL"}}}

\* What fmt_ret holds before format_seconds has returned, and when it raised.
NotCalled == "(not called)"
IndexError == "IndexError: list index out of range"

----------------------------------------------------------------------------
\* format_seconds

DigitChars == <<"0", "1", "2", "3", "4", "5", "6", "7", "8", "9">>

RECURSIVE Digits(_, _)
\* n written with exactly `width` decimal digits.
Digits(n, width) ==
    IF width = 0 THEN ""
    ELSE Digits(n \div 10, width - 1) \o DigitChars[(n % 10) + 1]

RECURSIVE ReprFraction(_, _)
\* The digits str(float) prints after the point for a fraction of f / 10^width:
\* trailing zeros are dropped, one digit is always kept.
ReprFraction(f, width) ==
    IF width > 1 /\ f % 10 = 0 THEN ReprFraction(f \div 10, width - 1)
    ELSE <<f, width>>

\* str(seconds) has no "." when it is printed in exponent form with a
\* one-digit mantissa ("5e-05"): every non-zero value below 10^-4.  Then
\* split(".")[1] raises IndexError.
FormatRaises(seconds) == seconds > 0 /\ seconds < 10

\* The first three characters of what str() prints after the point, for a
\* fraction of frac / 10^5.
FractionHead(frac) ==
    LET r == ReprFraction(frac, 5)
        f == r[1]
        w == r[2]
    IN  IF w > 3 THEN Digits(f \div (10 ^ (w - 3)), 3) ELSE Digits(f, w)

\* str(seconds).split(".")[1][:3]
Miliseconds(seconds) == FractionHead(seconds % UnitsPerSecond)

\* The hour of the day gmtime gives for s whole seconds since the epoch.
tm_hour(s) == (s \div 3600) % 24

\* time.strftime("%H:%M:%S", time.gmtime(s)) for s whole seconds.
StrfTimeOfWhole(s) ==
    Digits(tm_hour(s), 2) \o ":" \o Digits((s \div 60) % 60, 2)
        \o ":" \o Digits(s % 60, 2)

\* time.strftime("%H:%M:%S", time.gmtime(seconds)): gmtime drops the fraction.
StrfTime(seconds) == StrfTimeOfWhole(seconds \div UnitsPerSecond)

format_seconds(seconds) == StrfTime(seconds) \o "." \o Miliseconds(seconds)

\* format_seconds on a duration given as whole seconds and a fraction in
\* clock units, which reaches the durations a single count cannot hold.
FormatPartsRaises(d) == d.whole = 0 /\ FormatRaises(d.frac)

format_parts(d) ==
    IF FormatPartsRaises(d) THEN IndexError
    ELSE StrfTimeOfWhole(d.whole) \o "." \o FractionHead(d.frac)

----------------------------------------------------------------------------
\* Python truthiness of _final_time: None and 0.0 are both false.
Truthy(x) == x # None /\ x # 0

\* The attributes and widgets as __init__ leaves them.
Attributes ==
    /\ _start_time = None
    /\ _final_time = None
    /\ label = InitialLabel
    /\ btn_visible = FALSE
    /\ btn_text = DefaultCaption
    /\ cube_choice = "speed"
    /\ _after_id = None
    /\ pending = {}
    /\ after_count = 0
    /\ clock = 0
    /\ advances = 0
    /\ point = NoPoint
    /\ write_ok = FALSE
    /\ n_writes = 0
    /\ event = "none"
    /\ session = "Idle"
    /\ live = None

\* The process is launched next to some config.json, or none.
Init ==
    /\ Attributes
    /\ config_json \in ConfigFiles
    /\ phase = "launch"
    /\ fmt_arg = [whole |-> 0, frac |-> 0]
    /\ fmt_ret = NotCalled

\* __init__: get_config raises when open() finds no file, and the exception
\* ends the process; otherwise whatever json.load returns is kept and the
\* main loop is entered.
get_config_raises == ~config_json.exists

Construct ==
    /\ phase = "launch"
    /\ phase' = IF get_config_raises THEN "exited" ELSE "mainloop"
    /\ UNCHANGED <<_start_time, _final_time, label, btn_visible, btn_text,
                   cube_choice, _after_id, pending, after_count, clock,
                   advances, point, write_ok, n_writes, event, session, live,
                   config_json, fmt_arg, fmt_ret>>

----------------------------------------------------------------------------
\* The spec's timer state machine (spec section 4.1), stepped by the same
\* events as the program: the start/stop key, the reset key, a send and its
\* outcome.
SpecStep(s, ev, ok) ==
    CASE ev = "space" ->
            IF s = "Idle" THEN "Running"
            ELSE IF s = "Running" THEN "Stopped" ELSE s
      [] ev = "a" -> IF s \in {"Stopped", "Sent"} THEN "Idle" ELSE s
      [] ev = "send" -> IF s \in {"Stopped", "Sent"} /\ ok THEN "Sent" ELSE s
      [] OTHER -> s

----------------------------------------------------------------------------
\* display_time, run with `remaining` callbacks still pending: writes the
\* label and arms the next refresh, unless format_seconds raises first.
display_time(remaining) ==
    IF _start_time # None /\ FormatRaises(clock - _start_time)
    THEN /\ pending' = remaining
         /\ UNCHANGED <<label, _after_id, after_count, live>>
    ELSE /\ label' = IF _start_time # None
                     THEN format_seconds(clock - _start_time)
                     ELSE StartingLabel
         /\ live' = IF _start_time # None THEN clock - _start_time ELSE None
         /\ after_count' = after_count + 1
         /\ _after_id' = after_count + 1
         /\ pending' = remaining \cup {after_count + 1}

\* start
start == _start_time' = clock

\* stop with the subtraction the wrong way round.
stop_Reversed ==
    LET elapsed_seconds == _start_time - clock
    IN  /\ pending' = pending \ {_after_id}
        /\ _final_time' = elapsed_seconds
        /\ btn_visible' = TRUE
        /\ label' = IF FormatRaises(elapsed_seconds) THEN label
                    ELSE "Elapsed time: " \o format_seconds(elapsed_seconds)
                            \o " seconds"

\* stop: after_cancel, then the final time and the button, then the label
\* unless format_seconds raises.
stop ==
    LET elapsed_seconds == clock - _start_time
    IN  /\ pending' = pending \ {_after_id}
        /\ _final_time' = elapsed_seconds
        /\ btn_visible' = TRUE
        /\ label' = IF FormatRaises(elapsed_seconds) THEN label
                    ELSE "Elapsed time: " \o format_seconds(elapsed_seconds)
                            \o " seconds"

\* restart, leaving the button where it is.
restart_KeepsButton ==
    /\ _start_time' = None
    /\ _final_time' = None
    /\ btn_visible' = btn_visible
    /\ btn_text' = DefaultCaption
    /\ label' = ResetLabel

\* restart
restart ==
    /\ _start_time' = None
    /\ _final_time' = None
    /\ btn_visible' = FALSE
    /\ btn_text' = DefaultCaption
    /\ label' = ResetLabel

\* The first condition without its test of _start_time.
MayStart_AnyState(keysym) == keysym = "space"

\* The three conditions of handle_user_event, in the order it tests them.
MayStart(keysym) == keysym = "space" /\ _start_time = None

MayStop(keysym) == keysym = "space" /\ ~Truthy(_final_time)

\* The third condition without its test of _final_time.
MayRestart_AnyState(keysym) == keysym = "a"

MayRestart(keysym) == keysym = "a" /\ Truthy(_final_time)

\* handle_user_event: the <Key> binding.
handle_user_event(keysym) ==
    /\ phase = "mainloop"
    /\ event' = keysym
    /\ session' = SpecStep(session, keysym, FALSE)
    /\ IF MayStart(keysym)
       THEN /\ after_count < MaxAfter
            /\ display_time(pending)
            /\ start
            /\ UNCHANGED <<_final_time, btn_visible, btn_text>>
       ELSE IF MayStop(keysym)
       THEN /\ stop
            /\ UNCHANGED <<_start_time, btn_text, _after_id, after_count,
                           live>>
       ELSE IF MayRestart(keysym)
       THEN /\ restart
            /\ UNCHANGED <<_after_id, pending, after_count, live>>
       ELSE UNCHANGED <<_start_time, _final_time, label, btn_visible,
                        btn_text, _after_id, pending, after_count, live>>
    /\ UNCHANGED <<cube_choice, clock, advances, point, write_ok, n_writes>>
    /\ UNCHANGED fixedVars

\* Tk runs one pending after() callback: display_time.
Refresh(id) ==
    /\ phase = "mainloop"
    /\ id \in pending
    /\ after_count < MaxAfter
    /\ event' = "after"
    /\ display_time(pending \ {id})
    /\ UNCHANGED <<_start_time, _final_time, btn_visible, btn_text,
                   cube_choice, clock, advances, point, write_ok, n_writes,
                   session>>
    /\ UNCHANGED fixedVars

\* The Point tagged with the dropdown's default instead of its value.
Point_DefaultCube(recorded_seconds) ==
    [cube |-> "speed", recorded_time |-> recorded_seconds]

\* Point("solving_time").tag("cube", cube_choice).field("recorded_time", ...)
Point(recorded_seconds) ==
    [cube |-> cube_choice, recorded_time |-> recorded_seconds]

\* What write() leaves on the window: the caption when it returns, the label
\* when it raises InfluxDBError.
ShowOutcome_Swapped(ok) ==
    IF ~ok
    THEN btn_text' = SentCaption /\ UNCHANGED label
    ELSE label' = ErrorText /\ UNCHANGED btn_text

ShowOutcome_SilentFailure(ok) ==
    IF ok
    THEN btn_text' = SentCaption /\ UNCHANGED label
    ELSE UNCHANGED <<label, btn_text>>

ShowOutcome(ok) ==
    IF ok
    THEN btn_text' = SentCaption /\ UNCHANGED label
    ELSE label' = ErrorText /\ UNCHANGED btn_text

\* self.config["INFLUX_URL"], ["INFLUX_TOKEN"], ["INFLUX_ORG"] and
\* ["INFLUX_BUCKET"] are all read before write() is called; a key that is
\* not there raises KeyError, which nothing catches.
ConfigKeyError == ~(RequiredKeys \subseteq config_json.keys)

\* transmit_to_influxdb(recorded_seconds); `ok` is whether write() returns
\* or raises InfluxDBError.
transmit_to_influxdb(recorded_seconds, ok) ==
    IF recorded_seconds # None /\ ~ConfigKeyError
    THEN /\ n_writes < MaxWrites
         /\ point' = Point(recorded_seconds)
         /\ write_ok' = ok
         /\ n_writes' = n_writes + 1
         /\ ShowOutcome(ok)
    ELSE UNCHANGED <<point, write_ok, n_writes, btn_text, label>>

\* What the button's command passes: self._final_time when it is clicked.
CommandArgument == _final_time

\* A click that takes the button away once the write has returned.
ClickInfluxBtn_HidesButton(ok) ==
    /\ phase = "mainloop"
    /\ btn_visible
    /\ event' = "send"
    /\ session' = SpecStep(session, "send", ok)
    /\ transmit_to_influxdb(CommandArgument, ok)
    /\ btn_visible' = ~ok
    /\ UNCHANGED <<_start_time, _final_time, cube_choice,
                   _after_id, pending, after_count, clock, advances, live>>
    /\ UNCHANGED fixedVars

\* A click on influx_btn, which Tk offers only while it is shown.
ClickInfluxBtn(ok) ==
    /\ phase = "mainloop"
    /\ btn_visible
    /\ event' = "send"
    /\ session' = SpecStep(session, "send", ok)
    /\ transmit_to_influxdb(CommandArgument, ok)
    /\ UNCHANGED <<_start_time, _final_time, btn_visible, cube_choice,
                   _after_id, pending, after_count, clock, advances, live>>
    /\ UNCHANGED fixedVars

\* The user picks an entry of the dropdown.
SelectCube(c) ==
    /\ phase = "mainloop"
    /\ cube_choice' = c
    /\ event' = "select"
    /\ UNCHANGED <<_start_time, _final_time, label, btn_visible, btn_text,
                   _after_id, pending, after_count, clock, advances, point,
                   write_ok, n_writes, session, live>>
    /\ UNCHANGED fixedVars

\* Time passes between two events.
AdvanceClock(d) ==
    /\ phase = "mainloop"
    /\ advances < MaxAdvances
    /\ clock' = clock + d
    /\ advances' = advances + 1
    /\ event' = "clock"
    /\ UNCHANGED <<_start_time, _final_time, label, btn_visible, btn_text,
                   cube_choice, _after_id, pending, after_count, point,
                   write_ok, n_writes, session, live>>
    /\ UNCHANGED fixedVars

\* The construction, then what the main loop dispatches and time passing
\* meanwhile.
Next ==
    \/ Construct
    \/ \E keysym \in Keysyms : handle_user_event(keysym)
    \/ \E id \in pending : Refresh(id)
    \/ \E ok \in BOOLEAN : ClickInfluxBtn(ok)
    \/ \E c \in CubeOptions : SelectCube(c)
    \/ \E d \in ClockSteps : AdvanceClock(d)

Spec == Init /\ [][Next]_vars

----------------------------------------------------------------------------
\* The session as the program's variables show it.
Idle == _start_time = None
Running == _start_time # None /\ _final_time = None
Stopped == _final_time # None /\ btn_text # SentCaption
Sent == _final_time # None /\ btn_text = SentCaption

\* C1: a start/stop key press captures a start instant only when the session
\* is Idle, and the session is Running after it; in any other state no step
\* captures a new start instant (the only change left is the reset key
\* clearing it).
C1_StartOnlyFromIdle ==
    [][/\ (event' = "space" /\ Idle) =>
            (_start_time' = clock /\ _start_time' # None /\ _final_time' = None)
       /\ (event' # "space" /\ Idle) => _start_time' = None
       /\ ~Idle => \/ _start_time' = _start_time
                   \/ _start_time' = None /\ event' = "a"]_vars

\* A start/stop key press, made after the clock has moved, has started the
\* stopwatch.
C1_Witness == event = "space" /\ Running /\ _start_time = clock /\ clock > 0

\* C2: stop() is performed only when the session is Running: a start/stop key
\* press in Running sets final_duration and leaves the session Stopped, and a
\* start/stop key press when final_duration is set (Stopped or Sent) changes
\* nothing, whatever the recorded duration is.
C2_StopOnlyWhenRunning ==
    [][/\ (event' = "space" /\ Running) =>
            (_final_time' # None /\ _start_time' = _start_time /\ btn_visible')
       /\ (event' = "space" /\ _final_time # None) => UNCHANGED uiVars]_vars

\* C3: a reset key press when final_duration is set (Stopped or Sent) returns
\* the session to Idle, hides the button and restores its caption, whatever
\* the recorded duration is.
C3_ResetReturnsToIdle ==
    [][(event' = "a" /\ _final_time # None) =>
            /\ _start_time' = None
            /\ _final_time' = None
            /\ ~btn_visible'
            /\ btn_text' = DefaultCaption]_vars

\* C4: a reset key press while the session is Idle or Running changes nothing
\* of the window or the timer; a running timer keeps its pending refresh.
C4_ResetIgnoredBeforeStop ==
    [][(event' = "a" /\ (Idle \/ Running)) => UNCHANGED uiVars]_vars

\* The reset key was pressed while the stopwatch was running, and it still
\* runs with its refresh pending.
C4_Witness == event = "a" /\ Running /\ pending = {_after_id}

\* C5: next to the spec's four-state machine, final_duration is set exactly
\* when the session is Stopped or Sent, and start_instant is absent exactly
\* when it is Idle.
C5_SessionMatchesSpec ==
    /\ (_final_time # None) <=> (session \in {"Stopped", "Sent"})
    /\ (_start_time = None) <=> (session = "Idle")

\* C6: a send whose write succeeds leaves the session Sent, the button showing
\* the 'sent' caption; the caption stays until a reset key press returns the
\* session to Idle.
C6_SentCaptionUntilReset ==
    [][/\ (event' = "send" /\ n_writes' # n_writes /\ write_ok') =>
            (btn_text' = SentCaption /\ Sent' /\ btn_visible')
       /\ (btn_text = SentCaption /\ btn_text' # SentCaption) =>
            (event' = "a" /\ Idle')]_vars

\* A write has succeeded and the 'sent' caption is still there after a later
\* key press.
C6_Witness == write_ok /\ btn_text = SentCaption /\ event = "space"

\* C7: a send from Stopped whose write fails leaves the session Stopped:
\* final_duration kept, the default caption kept, the button still shown (so
\* that a further click sends again), the error text in the main label.
C7_FailedSendStaysStopped ==
    [][(event' = "send" /\ n_writes' # n_writes /\ ~write_ok' /\ Stopped) =>
            /\ _final_time' = _final_time
            /\ _final_time' # None
            /\ _start_time' = _start_time
            /\ btn_text' = DefaultCaption
            /\ btn_visible'
            /\ label' = ErrorText]_vars

\* After a failed write, a second click has sent the same duration with
\* success: the label still holds the error, the caption says 'sent'.
C7_Witness ==
    /\ event = "send" /\ n_writes = 2 /\ write_ok
    /\ label = ErrorText /\ btn_text = SentCaption
    /\ point.recorded_time = _final_time

\* C8: every point handed to write() carries the cube selected when the send
\* is made, one of the two options, and the final_duration the session has at
\* that moment.
C8_PointCarriesCubeAndDuration ==
    /\ [](cube_choice \in CubeOptions)
    /\ [][n_writes' # n_writes =>
            /\ point'.cube = cube_choice
            /\ point'.cube \in CubeOptions
            /\ point'.recorded_time = _final_time
            /\ _final_time # None]_vars

\* The second session's time, which differs from the first one's already
\* written, has been sent with the cube changed to 'classic'.
C8_Witness ==
    /\ event = "send" /\ n_writes = 2 /\ point.cube = "classic"
    /\ point.recorded_time = _final_time /\ _final_time = 2000
    /\ _start_time > 0

\* C9: the send button is shown exactly when final_duration is set, so every
\* click finds a duration, and no write happens in Idle or Running.
C9_ButtonIffDuration ==
    /\ [](btn_visible <=> _final_time # None)
    /\ [][event' = "send" => _final_time # None]_vars
    /\ [][n_writes' # n_writes => ~Idle /\ ~Running]_vars

\* After a send, a reset has hidden the button again.
C9_Witness == n_writes > 0 /\ ~btn_visible /\ _final_time = None /\ event = "a"

\* C10: between two handlers, exactly one refresh callback is pending, the
\* one _after_id names, while the session is Running, and none otherwise.
C10_OneRefreshWhileRunning ==
    IF Running
    THEN pending = {_after_id} /\ Cardinality(pending) = 1
    ELSE pending = {}

\* C11: the clock never goes back; a stop records the clock at the stop minus
\* the clock captured at the start, never a negative value; every elapsed
\* time shown while running is non-negative and at most the final_duration
\* recorded afterwards.
C11_ElapsedIsClockDifference ==
    /\ [][clock' >= clock]_vars
    /\ [][(event' = "space" /\ Running) =>
            (_final_time' = clock - _start_time /\ _final_time' >= 0)]_vars
    /\ [](Running => _start_time <= clock)
    /\ [](live # None => live >= 0)
    /\ []((live # None /\ _final_time # None) => live <= _final_time)

\* 20 ms after the start a refresh showed 0.02 s; a second later the stop
\* recorded 1.02 s.
C11_Witness == event = "space" /\ live = 2000 /\ _final_time = 102000

----------------------------------------------------------------------------
\* format_seconds, a static method, called on its own with durations that a
\* run of the stopwatch within the bounds above does not reach.

MaxHours == 25

MinuteSamples == {0, 1, 59}
SecondSamples == {0, 1, 59}
\* Fractions of a second in clock units: 0, 0.00005, 0.0001, 0.001, 0.05,
\* 0.12345, 0.456, 0.4567, 0.5, 0.99999.
FractionSamples == {0, 5, 10, 100, 5000, 12345, 45600, 45670, 50000, 99999}

FormatInputs ==
    {[whole |-> h * 3600 + m * 60 + s, frac |-> f] :
        h \in 0 .. MaxHours, m \in MinuteSamples, s \in SecondSamples,
        f \in FractionSamples}

FormatInit ==
    /\ Attributes
    /\ config_json = [exists |-> TRUE, keys |-> RequiredKeys]
    /\ phase = "launch"
    /\ fmt_arg \in FormatInputs
    /\ fmt_ret = NotCalled

\* RubiksCubeStopWatch.format_seconds(fmt_arg)
CallFormat ==
    /\ fmt_ret = NotCalled
    /\ fmt_ret' = format_parts(fmt_arg)
    /\ UNCHANGED <<_start_time, _final_time, label, btn_visible, btn_text,
                   cube_choice, _after_id, pending, after_count, clock,
                   advances, point, write_ok, n_writes, event, session, live,
                   config_json, phase, fmt_arg>>

FormatNext == CallFormat

SpecFormat == FormatInit /\ [][FormatNext]_vars

\* format_seconds has been called and has returned or raised.
Called == fmt_ret # NotCalled

\* C12: for every non-negative duration format_seconds returns a string of
\* the shape HH:MM:SS.mmm, twelve characters with a three-digit millisecond
\* field; 0.0 gives "00:00:00.000" and 0.05 gives "00:00:00.050".
C12_FixedWidthMilliseconds ==
    Called =>
        /\ fmt_ret # IndexError
        /\ Len(fmt_ret) = 12
        /\ fmt_arg = [whole |-> 0, frac |-> 0] => fmt_ret = "00:00:00.000"
        /\ fmt_arg = [whole |-> 0, frac |-> 5000] => fmt_ret = "00:00:00.050"

\* C13: for a duration of 24 hours or more the hour field is
\* floor(d / 3600), the other fields being what format_seconds makes them.
C13_HoursPastADay ==
    (Called /\ fmt_arg.whole >= 24 * 3600) =>
        fmt_ret = Digits(fmt_arg.whole \div 3600, 2) \o ":"
                    \o Digits((fmt_arg.whole \div 60) % 60, 2) \o ":"
                    \o Digits(fmt_arg.whole % 60, 2) \o "."
                    \o FractionHead(fmt_arg.frac)

\* C14: the millisecond field is the first three decimal digits of the
\* fraction, truncated, and HH, MM, SS are the zero-padded hours, minutes
\* modulo 60 and seconds modulo 60 of the integer part; 3661.4567 gives
\* "01:01:01.456".
C14_TruncatedMilliseconds ==
    Called =>
        /\ fmt_ret = Digits(fmt_arg.whole \div 3600, 2) \o ":"
                        \o Digits((fmt_arg.whole \div 60) % 60, 2) \o ":"
                        \o Digits(fmt_arg.whole % 60, 2) \o "."
                        \o Digits(fmt_arg.frac \div 100, 3)
        /\ fmt_arg = [whole |-> 3661, frac |-> 45670] =>
                fmt_ret = "01:01:01.456"

----------------------------------------------------------------------------
\* A config.json that does not give the four keys, or is not there at all.
ConfigLoadFails ==
    ~config_json.exists \/ ~(RequiredKeys \subseteq config_json.keys)

\* C15: when config.json is missing, or lacks one of the four required keys,
\* the program ends before its main loop starts: no key event, no refresh and
\* no send is ever processed.
C15_ConfigFailureIsFatal ==
    ConfigLoadFails => (phase # "mainloop" /\ event = "none" /\ n_writes = 0)

\* C16: a send, whatever its outcome and however often it is repeated, leaves
\* start_instant, final_duration, the selected cube, the button's visibility
\* and the refresh (none is pending) as they were; only the caption or the
\* label changes.
C16_SendChangesStatusOnly ==
    [][event' = "send" =>
            /\ UNCHANGED <<_start_time, _final_time, cube_choice,
                           btn_visible, _after_id, pending>>
            /\ pending = {}
            /\ _final_time # None]_vars

\* A second send of the same duration has failed after the first succeeded:
\* the session is as the stop left it.
C16_Witness ==
    /\ event = "send" /\ n_writes = 2 /\ ~write_ok
    /\ btn_text = SentCaption /\ label = ErrorText
    /\ btn_visible /\ point.recorded_time = _final_time

\* C17: each send click made while a duration exists performs exactly one
\* write attempt, and nothing else ever performs one (no retry, no queue), so
\* the attempts number as many as those clicks.
C17_OneWritePerClick ==
    [][/\ (event' = "send" /\ _final_time # None) => n_writes' = n_writes + 1
       /\ event' # "send" => n_writes' = n_writes]_vars

\* C18: the caption turns to 'sent' only when a write carrying the session's
\* final_duration succeeds, and every step that changes final_duration (a
\* stop, a reset) leaves the default caption: 'sent' never stands next to a
\* duration that was not written.
C18_SentCaptionIsCurrent ==
    [][/\ (btn_text' = SentCaption /\ btn_text # SentCaption) =>
            /\ event' = "send"
            /\ write_ok'
            /\ point'.recorded_time = _final_time'
       /\ _final_time' # _final_time => btn_text' = DefaultCaption]_vars

\* C19: while the caption says 'sent' the label shows the final elapsed time
\* and no write error, and while the label shows a write error the caption
\* does not say 'sent'.
C19_StatusConsistent ==
    /\ btn_text = SentCaption =>
            /\ label # ErrorText
            /\ _final_time # None
            /\ FormatRaises(_final_time) \/
                    label = "Elapsed time: " \o format_seconds(_final_time)
                                \o " seconds"
    /\ label = ErrorText => btn_text # SentCaption

====
